---- MODULE Spec2Model ----
(***************************************************************************)
(* Model of HiwonderRpi::HiwonderBusServo (src/src/HiwonderBusServo.hpp):  *)
(* the frame encoders of the write commands, the request/reply exchange of *)
(* the read commands (genericRead, idRead, getMessage, checkMessage), the  *)
(* function-local static buffers they share between calls and clients, and *)
(* the serial line they talk to (wiringSerial: serialPutchar,              *)
(* serialDataAvail, serialGetchar, serialFlush).                           *)
(*                                                                         *)
(* A Buffer is std::array<uint8_t,10>, modelled as a function with domain  *)
(* 0..9 so that indices read as in the source.                             *)
(***************************************************************************)
EXTENDS Integers, Sequences, FiniteSets, TLC

VARIABLES
    id,       \* client -> bound servo id (HiwonderBusServo::id of each object)
    tmpl,     \* function name -> its function-local `static Buffer buf`
    res,      \* getMessage's function-local `static Buffer res`
    rx,       \* bytes waiting in the serial input queue (serialDataAvail = Len)
    line,     \* bytes the peer has put on the line that have not arrived yet
    replied,  \* the peer has answered the request of the running exchange
    pc,       \* position of the (single) calling thread
    i,        \* busy loop counter of getMessage
    cur,      \* the call that is running or ran last: [op, c, a]
    tx,       \* bytes given to serialPutchar by that call, in order
    outcome,  \* how that call ended
    ret,      \* the value it returned (NoValue if it returned none)
    nread,    \* bytes taken with serialGetchar by that call
    polls,    \* what that call's serialDataAvail polls saw: [hdr, pay, low]
    hiStore,  \* highest index of res stored to by that call (-1: none)
    stray,    \* bytes that call stored past the end of res, in order
    calls,    \* number of calls started
    inp       \* the one call a single-call specification applies (or NoCall)

vars == <<id, tmpl, res, rx, line, replied, pc, i, cur, tx, outcome, ret,
          nread, polls, hiStore, stray, calls, inp>>

-----------------------------------------------------------------------------
(* Bounds of the model.                                                    *)

\* Calls per behaviour of the multi-call specification.
MaxCalls == 2

\* Iterations of each busy loop of getMessage. The source's MaxBusyLoop is
\* 20000 (line 295); the loops' logic does not depend on the value, and the
\* model runs them with this many iterations.
MaxBusyLoop == 2

-----------------------------------------------------------------------------
(* Integer conversions of the C++ code.                                    *)

\* Conversion to uint16_t / uint8_t (modular).
U16(v) == v % 65536
U8(v) == v % 256
\* Conversion of a value to int16_t / int8_t (modular, as gcc defines it).
I16(v) == IF U16(v) >= 32768 THEN U16(v) - 65536 ELSE U16(v)
I8(v) == IF U8(v) >= 128 THEN U8(v) - 256 ELSE U8(v)

\* std::max / std::min.
Max(a, b) == IF a < b THEN b ELSE a
Min(a, b) == IF b < a THEN b ELSE a

FrameHeader == 85
pholder == 0
BufferSize == 10
UIntMax == 2147483647

\* Value of index 0..9 of a brace-initialised Buffer {55,55,_,size,cmd,_...}.
Template(size, cmd) ==
    [k \in 0..(BufferSize - 1) |->
        IF k < 2 THEN FrameHeader
        ELSE IF k = 3 THEN size
        ELSE IF k = 4 THEN cmd
        ELSE pholder]

ZeroBuffer == [k \in 0..(BufferSize - 1) |-> 0]

getLowByte(in) == U16(in) % 256

getHighByte(in) == (U16(in) \div 256) % 256

\* Sum of buf[lo..hi-1]; an index outside the array reads as 0 here, the
\* callers record such a read separately.
RECURSIVE SumFrom(_, _, _)
SumFrom(buf, lo, hi) ==
    IF lo >= hi THEN 0
    ELSE (IF lo \in DOMAIN buf THEN buf[lo] ELSE 0) + SumFrom(buf, lo + 1, hi)

checksumNoLen(buf) ==
    getLowByte(65535 - U16(SumFrom(buf, 4, buf[3] + 2) + buf[2]))
checksum(buf) ==
    LET temp == U16(SumFrom(buf, 2, buf[3] + 2))
    IN getLowByte(65535 - temp)

\* The bytes sendBuf hands to serialPutchar, in order.
sendBufShort(buf) == [k \in 1..(buf[3] + 2) |-> buf[k - 1]]
sendBuf(buf) == [k \in 1..(buf[3] + 3) |-> buf[k - 1]]

-----------------------------------------------------------------------------
(* Command ids and sizes (the constexpr statics of each method).           *)

WriteOps == {"moveTimeWrite", "moveTimeWaitWrite", "moveStart", "moveStop",
             "idWrite", "angleOffsetAdjust", "angleOffsetWrite",
             "angleLimitWrite", "vinLimitWrite", "tempMaxLimitWrite",
             "servoOrMotorModeWrite", "loadOrUnloadWrite", "ledCtrlWrite",
             "ledErrorWrite"}

ReadOps == {"moveTimeRead", "moveTimeWaitRead", "idRead", "angleOffsetRead",
            "angleLimitRead", "vinLimitRead", "tempMaxLimitRead", "tempRead",
            "vinRead", "posRead", "servoOrMotorModeRead", "loadOrUnloadRead",
            "ledCtrlRead", "ledErrorRead"}

Ops == WriteOps \cup ReadOps

\* op -> [id: command id, size: request size field, reply: reply size field]
Cmd ==
    [moveTimeWrite         |-> [id |-> 1,  size |-> 7, reply |-> 0],
     moveTimeRead          |-> [id |-> 2,  size |-> 3, reply |-> 7],
     moveTimeWaitWrite     |-> [id |-> 7,  size |-> 7, reply |-> 0],
     moveTimeWaitRead      |-> [id |-> 8,  size |-> 3, reply |-> 7],
     moveStart             |-> [id |-> 11, size |-> 3, reply |-> 0],
     moveStop              |-> [id |-> 12, size |-> 3, reply |-> 0],
     idWrite               |-> [id |-> 13, size |-> 4, reply |-> 0],
     idRead                |-> [id |-> 14, size |-> 3, reply |-> 4],
     angleOffsetAdjust     |-> [id |-> 17, size |-> 4, reply |-> 0],
     angleOffsetWrite      |-> [id |-> 18, size |-> 3, reply |-> 0],
     angleOffsetRead       |-> [id |-> 19, size |-> 3, reply |-> 4],
     angleLimitWrite       |-> [id |-> 20, size |-> 7, reply |-> 0],
     angleLimitRead        |-> [id |-> 21, size |-> 3, reply |-> 7],
     vinLimitWrite         |-> [id |-> 22, size |-> 7, reply |-> 0],
     vinLimitRead          |-> [id |-> 23, size |-> 3, reply |-> 7],
     tempMaxLimitWrite     |-> [id |-> 24, size |-> 4, reply |-> 0],
     tempMaxLimitRead      |-> [id |-> 25, size |-> 3, reply |-> 4],
     tempRead              |-> [id |-> 26, size |-> 3, reply |-> 4],
     vinRead               |-> [id |-> 27, size |-> 3, reply |-> 5],
     posRead               |-> [id |-> 28, size |-> 3, reply |-> 5],
     servoOrMotorModeWrite |-> [id |-> 29, size |-> 7, reply |-> 0],
     servoOrMotorModeRead  |-> [id |-> 30, size |-> 3, reply |-> 7],
     loadOrUnloadWrite     |-> [id |-> 31, size |-> 4, reply |-> 0],
     loadOrUnloadRead      |-> [id |-> 32, size |-> 3, reply |-> 4],
     ledCtrlWrite          |-> [id |-> 33, size |-> 4, reply |-> 0],
     ledCtrlRead           |-> [id |-> 34, size |-> 3, reply |-> 4],
     ledErrorWrite         |-> [id |-> 35, size |-> 4, reply |-> 0],
     ledErrorRead          |-> [id |-> 36, size |-> 3, reply |-> 4]]

\* enum class Mode / LoadMode / PowerLed, by underlying value.
Mode == [Servo |-> 0, Motor |-> 1]
LoadMode == [Unload |-> 0, Load |-> 1]
PowerLed == [Off |-> 1, On |-> 0]

BroadcastId == 254

NoValue == [has |-> FALSE, v |-> 0]
Value(v) == [has |-> TRUE, v |-> v]
\* hdr, pay: polls made by the header / payload wait; low: every header poll
\* saw fewer than 4 bytes.
NoPolls == [hdr |-> 0, pay |-> 0, low |-> TRUE]
NoCall == [op |-> "none", c |-> "none", a |-> <<>>]

-----------------------------------------------------------------------------
(* State after construction: every function-local static holds its        *)
(* initialiser, nothing has been sent or received.                         *)

InitStatics ==
    /\ tmpl = [op \in Ops |-> Template(Cmd[op].size, Cmd[op].id)]
    /\ res = ZeroBuffer

InitIdle ==
    /\ rx = <<>>
    /\ line = <<>>
    /\ replied = FALSE
    /\ pc = "Idle"
    /\ i = 0
    /\ cur = NoCall
    /\ tx = <<>>
    /\ outcome = "None"
    /\ ret = NoValue
    /\ nread = 0
    /\ polls = NoPolls
    /\ hiStore = -1
    /\ stray = <<>>
    /\ calls = 0

-----------------------------------------------------------------------------
(* Write commands: each fills its static buffer and sends it. None waits   *)
(* for a reply, so each is one step of the calling thread.                 *)

\* Common tail of the write methods: buf is the method's static buffer after
\* its assignments; sendBuf(buf) puts it on the line.
WriteCall(c, op, args, buf) ==
    /\ pc = "Idle"
    /\ tmpl' = [tmpl EXCEPT ![op] = buf]
    /\ tx' = sendBuf(buf)
    /\ cur' = [op |-> op, c |-> c, a |-> args]
    /\ outcome' = "Sent"
    /\ ret' = NoValue
    /\ nread' = 0
    /\ polls' = NoPolls
    /\ hiStore' = -1
    /\ stray' = <<>>
    /\ calls' = calls + 1
    /\ UNCHANGED <<id, res, rx, line, replied, pc, i>>

ClampPositionHighOnly(position) ==
    IF position > 1000 THEN 1000 ELSE position
\* position clamped to [0,1000] (lines 395-396 and 451-452).
ClampPosition(position) ==
    LET p1 == IF position < 0 THEN 0 ELSE position
    IN IF p1 > 1000 THEN 1000 ELSE p1

\* Body shared by moveTimeWrite and moveTimeWaitWrite, which differ in the
\* static buffer only.
MoveBuf(b, c, position, time) ==
    LET p == ClampPosition(position)
        b1 == [b EXCEPT ![2] = U8(id[c]),
                        ![5] = getLowByte(p),
                        ![6] = getHighByte(p),
                        ![7] = getLowByte(time),
                        ![8] = getHighByte(time)]
    IN [b1 EXCEPT ![9] = checksum(b1)]

moveTimeWrite(c, position, time) ==
    WriteCall(c, "moveTimeWrite", <<position, time>>,
              MoveBuf(tmpl["moveTimeWrite"], c, position, time))

moveTimeWaitWrite(c, position, time) ==
    WriteCall(c, "moveTimeWaitWrite", <<position, time>>,
              MoveBuf(tmpl["moveTimeWaitWrite"], c, position, time))

\* moveStart and moveStop never assign buf[2]: it keeps the initialiser's
\* placeholder.
moveStart(c) ==
    LET b == tmpl["moveStart"]
    IN WriteCall(c, "moveStart", <<>>, [b EXCEPT ![5] = checksum(b)])

moveStop(c) ==
    LET b == tmpl["moveStop"]
    IN WriteCall(c, "moveStop", <<>>, [b EXCEPT ![5] = checksum(b)])

\* Body shared by the write methods with one payload byte.
OneByteBuf(b, c, v) ==
    LET b1 == [b EXCEPT ![2] = U8(id[c]), ![5] = v]
    IN [b1 EXCEPT ![6] = checksum(b1)]

idWrite(c, newId) ==
    WriteCall(c, "idWrite", <<newId>>, OneByteBuf(tmpl["idWrite"], c, newId))

angleOffsetAdjust(c, angleDelta) ==
    WriteCall(c, "angleOffsetAdjust", <<angleDelta>>,
              OneByteBuf(tmpl["angleOffsetAdjust"], c, U8(angleDelta)))

angleOffsetWrite(c) ==
    LET b1 == [tmpl["angleOffsetWrite"] EXCEPT ![2] = U8(id[c])]
    IN WriteCall(c, "angleOffsetWrite", <<>>, [b1 EXCEPT ![5] = checksum(b1)])

\* The four std::max / std::min lines of angleLimitWrite and vinLimitWrite:
\* <<minLimit, maxLimit>> after them.
ClampLimitsNoOrder(lo, hiMin, hi, minLimit, maxLimit) ==
    <<Min(Max(minLimit, lo), hiMin), Min(maxLimit, hi)>>
ClampLimits(lo, hiMin, hi, minLimit, maxLimit) ==
    LET mn == Min(Max(minLimit, lo), hiMin)
        mx == Max(Min(maxLimit, hi), I16(mn + 1))
    IN <<mn, mx>>

LimitBuf(b, c, lim) ==
    LET b1 == [b EXCEPT ![2] = U8(id[c]),
                        ![5] = getLowByte(lim[1]),
                        ![6] = getHighByte(lim[1]),
                        ![7] = getLowByte(lim[2]),
                        ![8] = getHighByte(lim[2])]
    IN [b1 EXCEPT ![9] = checksum(b1)]

angleLimitWrite(c, minLimit, maxLimit) ==
    WriteCall(c, "angleLimitWrite", <<minLimit, maxLimit>>,
              LimitBuf(tmpl["angleLimitWrite"], c,
                       ClampLimits(0, 999, 1000, minLimit, maxLimit)))

vinLimitWrite(c, minLimit, maxLimit) ==
    WriteCall(c, "vinLimitWrite", <<minLimit, maxLimit>>,
              LimitBuf(tmpl["vinLimitWrite"], c,
                       ClampLimits(4500, 11999, 12000, minLimit, maxLimit)))

tempMaxLimitWrite(c, maxTemp) ==
    WriteCall(c, "tempMaxLimitWrite", <<maxTemp>>,
              OneByteBuf(tmpl["tempMaxLimitWrite"], c,
                         Min(Max(maxTemp, 50), 100)))

\* speed clamped to [-1000,1000] whatever the mode (lines 891-892).
ClampSpeed(speed) == Min(Max(speed, -1000), 1000)

servoOrMotorModeWrite(c, mode, speed) ==
    LET s == ClampSpeed(speed)
        b1 == [tmpl["servoOrMotorModeWrite"] EXCEPT
                   ![2] = U8(id[c]),
                   ![5] = mode,
                   ![6] = 0,
                   ![7] = getLowByte(s),
                   ![8] = getHighByte(s)]
    IN WriteCall(c, "servoOrMotorModeWrite", <<mode, speed>>,
                 [b1 EXCEPT ![9] = checksum(b1)])

loadOrUnloadWrite(c, loadMode) ==
    WriteCall(c, "loadOrUnloadWrite", <<loadMode>>,
              OneByteBuf(tmpl["loadOrUnloadWrite"], c, loadMode))

ledCtrlWrite(c, powerLed) ==
    WriteCall(c, "ledCtrlWrite", <<powerLed>>,
              OneByteBuf(tmpl["ledCtrlWrite"], c, powerLed))

\* The payload byte of ledErrorWrite (line 1033).
LedErrorByte(overTemperature, overVoltage, stall) ==
    U8((IF overTemperature THEN 1 ELSE 0) + (IF overVoltage THEN 2 ELSE 0)
       + (IF stall THEN 4 ELSE 0))

ledErrorWrite(c, overTemperature, overVoltage, stall) ==
    WriteCall(c, "ledErrorWrite", <<overTemperature, overVoltage, stall>>,
              OneByteBuf(tmpl["ledErrorWrite"], c,
                         LedErrorByte(overTemperature, overVoltage, stall)))

-----------------------------------------------------------------------------
(* The serial line. The peer (a servo, or noise) puts bytes on the line;   *)
(* they reach the input queue some time later, in order, any number at a   *)
(* time. serialFlush drops what is in the queue, not what is still on the  *)
(* way.                                                                    *)

Arrive(k) ==
    /\ k \in 1..Len(line)
    /\ rx' = rx \o SubSeq(line, 1, k)
    /\ line' = SubSeq(line, k + 1, Len(line))
    /\ UNCHANGED <<id, tmpl, res, replied, pc, i, cur, tx, outcome, ret,
                   nread, polls, hiStore, stray, calls, inp>>

\* The peer answers the request that was just sent with the bytes r.
PeerReply(r) ==
    /\ pc = "AwaitHeader"
    /\ ~replied
    /\ polls.hdr = 0
    /\ replied' = TRUE
    /\ line' = line \o r
    /\ UNCHANGED <<id, tmpl, res, rx, pc, i, cur, tx, outcome, ret, nread,
                   polls, hiStore, stray, calls, inp>>

\* The peer answers the request that was just sent and its bytes r reach the
\* input queue in one burst while the caller waits for the header.
PeerBurst(r) ==
    /\ pc \in {"AwaitHeader", "HeaderCheck"}
    /\ ~replied
    /\ replied' = TRUE
    /\ rx' = rx \o r
    /\ UNCHANGED <<id, tmpl, res, line, pc, i, cur, tx, outcome, ret, nread,
                   polls, hiStore, stray, calls, inp>>

\* What the protocol's frame check byte is for the bytes from the id byte on.
RECURSIVE SeqSum(_, _, _)
SeqSum(s, lo, hi) ==
    IF lo > hi THEN 0
    ELSE IF lo = hi THEN s[lo]
    ELSE LET mid == (lo + hi) \div 2
         IN SeqSum(s, lo, mid) + SeqSum(s, mid + 1, hi)
WireCheck(s) == 255 - (SeqSum(s, 1, Len(s)) % 256)

\* A reply frame as a peer builds it: header, id, length byte, then body.
\* ck is added to the correct check byte (0: a valid frame).
ReplyFrame(addr, len, cmd, payload, ck) ==
    <<FrameHeader, FrameHeader, addr, len, cmd>> \o payload
        \o <<(WireCheck(<<addr, len, cmd>> \o payload) + ck) % 256>>

-----------------------------------------------------------------------------
(* Read commands. genericRead (and idRead, which repeats its body with the *)
(* broadcast id) fills the request, flushes the input, sends, waits for    *)
(* the reply in getMessage, checks it and decodes it.                      *)

\* Entry of a read method up to and including serialFlush (lines 359-362,
\* 565-568): addr is what the method stores in buf[2].
ReadCallNoFlush(c, op, addr) ==
    LET b1 == [tmpl[op] EXCEPT ![2] = U8(addr)]
        buf == [b1 EXCEPT ![b1[3] + 2] = checksum(b1)]
    IN /\ pc = "Idle"
       /\ tmpl' = [tmpl EXCEPT ![op] = buf]
       /\ pc' = "Send"
       /\ i' = 0
       /\ cur' = [op |-> op, c |-> c, a |-> <<>>]
       /\ tx' = <<>>
       /\ outcome' = "Running"
       /\ ret' = NoValue
       /\ nread' = 0
       /\ polls' = NoPolls
       /\ hiStore' = -1
       /\ stray' = <<>>
       /\ replied' = FALSE
       /\ calls' = calls + 1
       /\ UNCHANGED <<id, res, rx, line>>
ReadCall(c, op, addr) ==
    LET b1 == [tmpl[op] EXCEPT ![2] = U8(addr)]
        buf == [b1 EXCEPT ![b1[3] + 2] = checksum(b1)]
    IN /\ pc = "Idle"
       /\ tmpl' = [tmpl EXCEPT ![op] = buf]
       /\ rx' = <<>>
       /\ pc' = "Send"
       /\ i' = 0
       /\ cur' = [op |-> op, c |-> c, a |-> <<>>]
       /\ tx' = <<>>
       /\ outcome' = "Running"
       /\ ret' = NoValue
       /\ nread' = 0
       /\ polls' = NoPolls
       /\ hiStore' = -1
       /\ stray' = <<>>
       /\ replied' = FALSE
       /\ calls' = calls + 1
       /\ UNCHANGED <<id, res, line>>

genericRead(c, op) == ReadCall(c, op, id[c])

moveTimeRead(c) == genericRead(c, "moveTimeRead")
moveTimeWaitRead(c) == genericRead(c, "moveTimeWaitRead")
idReadBound(c) == ReadCall(c, "idRead", id[c])
idRead(c) == ReadCall(c, "idRead", BroadcastId)
angleOffsetRead(c) == genericRead(c, "angleOffsetRead")
angleLimitRead(c) == genericRead(c, "angleLimitRead")
vinLimitRead(c) == genericRead(c, "vinLimitRead")
tempMaxLimitRead(c) == genericRead(c, "tempMaxLimitRead")
tempRead(c) == genericRead(c, "tempRead")
vinRead(c) == genericRead(c, "vinRead")
posRead(c) == genericRead(c, "posRead")
servoOrMotorModeRead(c) == genericRead(c, "servoOrMotorModeRead")
loadOrUnloadRead(c) == genericRead(c, "loadOrUnloadRead")
ledCtrlRead(c) == genericRead(c, "ledCtrlRead")
ledErrorRead(c) == genericRead(c, "ledErrorRead")

\* sendBuf(buf) of a read method (lines 363, 569).
SendRequest ==
    /\ pc = "Send"
    /\ tx' = tx \o sendBuf(tmpl[cur.op])
    /\ pc' = "AwaitHeader"
    /\ UNCHANGED <<id, tmpl, res, rx, line, replied, i, cur, outcome, ret,
                   nread, polls, hiStore, stray, calls, inp>>

\* serialDataAvail(fd)<4 of lines 298 and 301.
HeaderShortOff(avail) == avail < 3
HeaderShort(avail) == avail < 4

\* serialDataAvail(fd)<res[3]-1 of lines 313 and 315. The comparison is in
\* int: res[3]-1 is -1 for a length byte of 0.
PayloadShort(avail, len) == avail < len - 1

\* The k-th serialGetchar from now: the k-th byte of the queue, or -1 (255
\* once stored in a uint8_t) after its timeout if the queue holds no such
\* byte.
RxByte(k) == IF k <= Len(rx) THEN rx[k] ELSE 255

\* One evaluation of the condition of the first busy loop (line 298):
\* serialDataAvail is polled only while i < MaxBusyLoop.
HeaderLoop ==
    /\ pc = "AwaitHeader"
    /\ IF i < MaxBusyLoop
       THEN /\ polls' = [polls EXCEPT !.hdr = @ + 1,
                                      !.low = @ /\ Len(rx) < 4]
            /\ IF HeaderShort(Len(rx))
               THEN i' = i + 1 /\ pc' = pc
               ELSE i' = i /\ pc' = "HeaderCheck"
       ELSE /\ pc' = "HeaderCheck"
            /\ UNCHANGED <<i, polls>>
    /\ UNCHANGED <<id, tmpl, res, rx, line, replied, cur, tx, outcome, ret,
                   nread, hiStore, stray, calls, inp>>

\* Lines 301-311: the poll after the loop, then the timeout or the four
\* header bytes.
HeaderCheck ==
    /\ pc = "HeaderCheck"
    /\ polls' = [polls EXCEPT !.hdr = @ + 1,
                              !.low = @ /\ Len(rx) < 4]
    /\ IF HeaderShort(Len(rx))
       THEN /\ res' = [res EXCEPT ![3] = 0, ![2] = 0]
            /\ outcome' = "HeaderTimeout"
            /\ pc' = "Idle"
            /\ i' = 0
            /\ UNCHANGED <<rx, nread, hiStore, stray>>
       ELSE /\ res' = [res EXCEPT ![0] = RxByte(1), ![1] = RxByte(2),
                                  ![2] = RxByte(3), ![3] = RxByte(4)]
            /\ rx' = SubSeq(rx, 5, Len(rx))
            /\ nread' = nread + Min(4, Len(rx))
            /\ hiStore' = 3
            /\ UNCHANGED stray
            /\ i' = 0
            /\ pc' = "AwaitPayload"
            /\ UNCHANGED outcome
    /\ UNCHANGED <<id, tmpl, line, replied, cur, tx, ret, calls, inp>>

\* One evaluation of the condition of the second busy loop (line 313).
PayloadLoop ==
    /\ pc = "AwaitPayload"
    /\ IF i < MaxBusyLoop
       THEN /\ polls' = [polls EXCEPT !.pay = @ + 1]
            /\ IF PayloadShort(Len(rx), res[3])
               THEN i' = i + 1 /\ pc' = pc
               ELSE i' = i /\ pc' = "PayloadCheck"
       ELSE /\ pc' = "PayloadCheck"
            /\ UNCHANGED <<i, polls>>
    /\ UNCHANGED <<id, tmpl, res, rx, line, replied, cur, tx, outcome, ret,
                   nread, hiStore, stray, calls, inp>>

\* Number of iterations of the copy loop of line 322: the bound res[3]-1u is
\* computed in unsigned int.
\* A length byte of 0 wraps it to 4294967295, which the model holds as
\* UIntMax, the largest integer TLC holds: all that is used of it is
\* that it is far above the size of the buffer.
CopyCount(len) == IF len >= 1 THEN len - 1 ELSE UIntMax

\* Lines 315-327: the poll after the loop, then the timeout or the copy
\* loop. The copy loop stores to res[4..n+3]; a store past res[9] is
\* outside the array (undefined behaviour), and serialGetchar on an empty
\* queue gives -1 (stored as 255) after its own timeout.
PayloadCheck ==
    /\ pc = "PayloadCheck"
    /\ polls' = [polls EXCEPT !.pay = @ + 1]
    /\ IF PayloadShort(Len(rx), res[3])
       THEN /\ res' = [res EXCEPT ![3] = 0, ![2] = 0]
            /\ outcome' = "PayloadTimeout"
            /\ pc' = "Idle"
            /\ i' = 0
            /\ UNCHANGED <<rx, nread, hiStore, stray>>
       ELSE LET n == CopyCount(res[3])
                got == Min(n, Len(rx))
            IN /\ res' = [k \in 0..(BufferSize - 1) |->
                            IF k >= 4 /\ k - 4 < n
                            THEN RxByte(k - 3)
                            ELSE res[k]]
               /\ rx' = SubSeq(rx, got + 1, Len(rx))
               /\ nread' = nread + got
               /\ hiStore' = IF n = 0 THEN hiStore
                              ELSE IF n = UIntMax THEN UIntMax ELSE n + 3
               /\ stray' = [k \in 1..Min(Max(n - (BufferSize - 4), 0),
                                          BufferSize) |->
                               RxByte(k + BufferSize - 4)]
               /\ pc' = IF n > BufferSize - 4 THEN "Undefined" ELSE "Check"
               /\ i' = 0
               /\ UNCHANGED outcome
    /\ UNCHANGED <<id, tmpl, line, replied, cur, tx, ret, calls, inp>>

\* After a store outside res the build decides what happens: the stray
\* stores hit memory the program does not depend on and it goes on, or they
\* hit the object that lies behind res, or the process dies. A copy loop
\* of 2^32-1 iterations does not come back.
UndefinedGoesOn ==
    /\ pc = "Undefined"
    /\ res[3] # 0
    /\ pc' = "Check"
    /\ UNCHANGED <<id, tmpl, res, rx, line, replied, i, cur, tx, outcome,
                   ret, nread, polls, hiStore, stray, calls, inp>>

\* The object behind res is the static request buffer of the method op: the
\* stray bytes are now its first bytes.
UndefinedClobber(op) ==
    /\ pc = "Undefined"
    /\ res[3] # 0
    /\ tmpl' = [tmpl EXCEPT ![op] =
                    [k \in 0..(BufferSize - 1) |->
                        IF k < Len(stray) THEN stray[k + 1] ELSE @[k]]]
    /\ pc' = "Check"
    /\ UNCHANGED <<id, res, rx, line, replied, i, cur, tx, outcome, ret,
                   nread, polls, hiStore, stray, calls, inp>>

UndefinedCrash ==
    /\ pc = "Undefined"
    /\ pc' = "Crashed"
    /\ outcome' = "Crashed"
    /\ UNCHANGED <<id, tmpl, res, rx, line, replied, i, cur, tx, ret, nread,
                   polls, hiStore, stray, calls, inp>>

checkMessage(buf, commandId, expectedSize) ==
    ~ (\/ buf[3] # expectedSize
       \/ buf[4] # commandId
       \/ buf[expectedSize + 2] # checksum(buf))

\* Highest index of buf that checkMessage and the checksum it calls read:
\* the || of line 333 stops at the first test that fails, and checksum
\* reads buf[2..buf[3]+1].
checkMessageReads(buf, commandId, expectedSize) ==
    IF buf[3] # expectedSize THEN 3
    ELSE IF buf[4] # commandId THEN 4
    ELSE Max(expectedSize + 2, buf[3] + 1)

WordBE(low, high) == high + low * 256
\* low + (high << 8) of two bytes, as the int the expression has.
Word(low, high) == low + high * 256

Bit(b, k) == (b \div k) % 2 = 1

\* What each read method makes of the checked reply.
Decode(op, buf) ==
    CASE op \in {"moveTimeRead", "moveTimeWaitRead"} ->
            [position |-> U16(Word(buf[5], buf[6])),
             time |-> U16(Word(buf[7], buf[8]))]
      [] op \in {"angleLimitRead", "vinLimitRead"} ->
            [minLimit |-> I16(Word(buf[5], buf[6])),
             maxLimit |-> I16(Word(buf[7], buf[8]))]
      [] op = "angleOffsetRead" -> I8(buf[5])
      [] op = "vinRead" -> U16(Word(buf[5], buf[6]))
      [] op = "posRead" -> I16(Word(buf[5], buf[6]))
      [] op = "servoOrMotorModeRead" ->
            [mode |-> buf[5], speed |-> I16(Word(buf[7], buf[8]))]
      [] op = "ledErrorRead" ->
            [overTemperature |-> Bit(buf[5], 1),
             overVoltage |-> Bit(buf[5], 2),
             stall |-> Bit(buf[5], 4)]
      [] OTHER -> buf[5]

\* Lines 368-373 (573-578) and the decoding of the calling method.
CheckReply ==
    /\ pc = "Check"
    /\ IF checkMessage(res, tmpl[cur.op][4], Cmd[cur.op].reply)
       THEN /\ outcome' = "Ok"
            /\ ret' = Value(Decode(cur.op, res))
       ELSE /\ outcome' = "Corrupted"
            /\ ret' = NoValue
    /\ pc' = "Idle"
    /\ UNCHANGED <<id, tmpl, res, rx, line, replied, i, cur, tx, nread,
                   polls, hiStore, stray, calls, inp>>

\* The steps of a running exchange.
Exchange ==
    \/ SendRequest
    \/ HeaderLoop
    \/ HeaderCheck
    \/ PayloadLoop
    \/ PayloadCheck
    \/ CheckReply

\* Which static buffer lies behind res is for the linker to decide; the
\* model tries a write method and a read method.
BehindRes == {"moveStart", "posRead"}

\* How a store outside res ends.
Undefined ==
    \/ UndefinedGoesOn
    \/ \E op \in BehindRes : UndefinedClobber(op)
    \/ UndefinedCrash

-----------------------------------------------------------------------------
(* Calls. A call is made by one of the clients (objects of the class) with *)
(* arguments from the sets of the record A.                                *)

WriteCalls(A) ==
    \E c \in DOMAIN id :
        \/ \E p \in A.position, t \in A.time : moveTimeWrite(c, p, t)
        \/ \E p \in A.position, t \in A.time : moveTimeWaitWrite(c, p, t)
        \/ moveStart(c)
        \/ moveStop(c)
        \/ \E n \in A.newId : idWrite(c, n)
        \/ \E d \in A.angle : angleOffsetAdjust(c, d)
        \/ angleOffsetWrite(c)
        \/ \E mn \in A.limit, mx \in A.limit : angleLimitWrite(c, mn, mx)
        \/ \E mn \in A.vin, mx \in A.vin : vinLimitWrite(c, mn, mx)
        \/ \E t \in A.temp : tempMaxLimitWrite(c, t)
        \/ \E m \in A.mode, s \in A.speed : servoOrMotorModeWrite(c, m, s)
        \/ \E m \in A.enum : loadOrUnloadWrite(c, m)
        \/ \E m \in A.enum : ledCtrlWrite(c, m)
        \/ \E ot \in A.flag, ov \in A.flag, st \in A.flag :
               ledErrorWrite(c, ot, ov, st)

ReadCalls ==
    \E c \in DOMAIN id :
        \/ moveTimeRead(c)
        \/ moveTimeWaitRead(c)
        \/ idRead(c)
        \/ angleOffsetRead(c)
        \/ angleLimitRead(c)
        \/ vinLimitRead(c)
        \/ tempMaxLimitRead(c)
        \/ tempRead(c)
        \/ vinRead(c)
        \/ posRead(c)
        \/ servoOrMotorModeRead(c)
        \/ loadOrUnloadRead(c)
        \/ ledCtrlRead(c)
        \/ ledErrorRead(c)

\* n bytes of the pattern pat, repeated as needed.
Fill(n, pat) == [k \in 1..n |-> pat[((k - 1) % Len(pat)) + 1]]

\* Payload patterns of the replies the peer is let to send.
PayloadPatterns == {<<244, 1, 232, 3>>, <<24, 252, 5, 128>>, <<255>>}

\* A well-formed reply to the running request, from a servo with id addr.
GoodReply(addr, pat) ==
    ReplyFrame(addr, Cmd[cur.op].reply, Cmd[cur.op].id,
               Fill(Cmd[cur.op].reply - 3, pat), 0)

\* A frame as long as its length byte len says (len-1 bytes after the
\* header), whatever len is; cmd and the check byte are there if they fit.
AnyLenReply(addr, len, cmd, pat) ==
    IF len >= 3 THEN ReplyFrame(addr, len, cmd, Fill(len - 3, pat), 0)
    ELSE SubSeq(<<FrameHeader, FrameHeader, addr, len, cmd>>, 1, 3 + Max(len, 1))

-----------------------------------------------------------------------------
(* Spec: clients bound to a servo id and to the broadcast id make up to    *)
(* MaxCalls calls, one after the other; the peer answers a request with a  *)
(* well-formed reply, at once or late, or not at all.                      *)

SeqClients == [a |-> 5, b |-> BroadcastId]

SeqArgs ==
    [position |-> {500}, time |-> {1000}, newId |-> {7}, angle |-> {-3},
     limit |-> {500}, vin |-> {6000}, temp |-> {85},
     mode |-> {Mode.Motor}, speed |-> {-500}, enum |-> {1},
     flag |-> {TRUE}]

Init ==
    /\ InitStatics
    /\ InitIdle
    /\ id = SeqClients
    /\ inp = NoCall

NextCall ==
    /\ calls < MaxCalls
    /\ (WriteCalls(SeqArgs) \/ ReadCalls)
    /\ UNCHANGED inp

NextPeer == PeerBurst(GoodReply(id[cur.c], <<244, 1, 232, 3>>))

Next ==
    \/ NextCall
    \/ Exchange
    \/ NextPeer

Spec == Init /\ [][Next]_vars

-----------------------------------------------------------------------------
(* Single-call specifications: Init draws one call, with its arguments,    *)
(* into inp, and the call is applied to the state after construction.      *)

\* The write calls of the clients C with arguments from the sets of A.
WriteInputs(C, A) ==
    {[op |-> o, c |-> c, a |-> <<p, t>>] :
        o \in {"moveTimeWrite", "moveTimeWaitWrite"}, c \in C,
        p \in A.position, t \in A.time}
    \cup {[op |-> o, c |-> c, a |-> <<>>] :
        o \in {"moveStart", "moveStop", "angleOffsetWrite"}, c \in C}
    \cup {[op |-> "idWrite", c |-> c, a |-> <<n>>] : c \in C, n \in A.newId}
    \cup {[op |-> "angleOffsetAdjust", c |-> c, a |-> <<d>>] :
        c \in C, d \in A.angle}
    \cup {[op |-> "angleLimitWrite", c |-> c, a |-> <<mn, mx>>] :
        c \in C, mn \in A.limit, mx \in A.limit}
    \cup {[op |-> "vinLimitWrite", c |-> c, a |-> <<mn, mx>>] :
        c \in C, mn \in A.vin, mx \in A.vin}
    \cup {[op |-> "tempMaxLimitWrite", c |-> c, a |-> <<t>>] :
        c \in C, t \in A.temp}
    \cup {[op |-> "servoOrMotorModeWrite", c |-> c, a |-> <<m, sp>>] :
        c \in C, m \in A.mode, sp \in A.speed}
    \cup {[op |-> o, c |-> c, a |-> <<m>>] :
        o \in {"loadOrUnloadWrite", "ledCtrlWrite"}, c \in C, m \in A.enum}
    \cup {[op |-> "ledErrorWrite", c |-> c, a |-> <<ot, ov, st>>] :
        c \in C, ot \in A.flag, ov \in A.flag, st \in A.flag}

ReadInputs(C) == {[op |-> o, c |-> c, a |-> <<>>] : o \in ReadOps, c \in C}

ApplyWrite ==
    /\ inp.op \in WriteOps
    /\ inp' = NoCall
    /\ \/ inp.op = "moveTimeWrite"
            /\ moveTimeWrite(inp.c, inp.a[1], inp.a[2])
       \/ inp.op = "moveTimeWaitWrite"
            /\ moveTimeWaitWrite(inp.c, inp.a[1], inp.a[2])
       \/ inp.op = "moveStart" /\ moveStart(inp.c)
       \/ inp.op = "moveStop" /\ moveStop(inp.c)
       \/ inp.op = "idWrite" /\ idWrite(inp.c, inp.a[1])
       \/ inp.op = "angleOffsetAdjust" /\ angleOffsetAdjust(inp.c, inp.a[1])
       \/ inp.op = "angleOffsetWrite" /\ angleOffsetWrite(inp.c)
       \/ inp.op = "angleLimitWrite"
            /\ angleLimitWrite(inp.c, inp.a[1], inp.a[2])
       \/ inp.op = "vinLimitWrite"
            /\ vinLimitWrite(inp.c, inp.a[1], inp.a[2])
       \/ inp.op = "tempMaxLimitWrite" /\ tempMaxLimitWrite(inp.c, inp.a[1])
       \/ inp.op = "servoOrMotorModeWrite"
            /\ servoOrMotorModeWrite(inp.c, inp.a[1], inp.a[2])
       \/ inp.op = "loadOrUnloadWrite" /\ loadOrUnloadWrite(inp.c, inp.a[1])
       \/ inp.op = "ledCtrlWrite" /\ ledCtrlWrite(inp.c, inp.a[1])
       \/ inp.op = "ledErrorWrite"
            /\ ledErrorWrite(inp.c, inp.a[1], inp.a[2], inp.a[3])

ApplyRead ==
    /\ inp.op \in ReadOps
    /\ inp' = NoCall
    /\ \/ inp.op = "moveTimeRead" /\ moveTimeRead(inp.c)
       \/ inp.op = "moveTimeWaitRead" /\ moveTimeWaitRead(inp.c)
       \/ inp.op = "idRead" /\ idRead(inp.c)
       \/ inp.op = "angleOffsetRead" /\ angleOffsetRead(inp.c)
       \/ inp.op = "angleLimitRead" /\ angleLimitRead(inp.c)
       \/ inp.op = "vinLimitRead" /\ vinLimitRead(inp.c)
       \/ inp.op = "tempMaxLimitRead" /\ tempMaxLimitRead(inp.c)
       \/ inp.op = "tempRead" /\ tempRead(inp.c)
       \/ inp.op = "vinRead" /\ vinRead(inp.c)
       \/ inp.op = "posRead" /\ posRead(inp.c)
       \/ inp.op = "servoOrMotorModeRead" /\ servoOrMotorModeRead(inp.c)
       \/ inp.op = "loadOrUnloadRead" /\ loadOrUnloadRead(inp.c)
       \/ inp.op = "ledCtrlRead" /\ ledCtrlRead(inp.c)
       \/ inp.op = "ledErrorRead" /\ ledErrorRead(inp.c)

-----------------------------------------------------------------------------
(* SpecEnc: one call of any method, with arguments over the boundary       *)
(* values of each parameter's type and of each clamp.                      *)

EncClients == [a |-> 1, b |-> 5, c |-> BroadcastId]

EncArgs ==
    [position |-> {-32768, -1, 0, 1, 500, 1000, 1001, 32767},
     time |-> {0, 1, 1000, 65535},
     newId |-> {0, 7, 254, 255},
     angle |-> {-128, -3, 0, 127},
     limit |-> {-32768, -1, 0, 1, 500, 998, 999, 1000, 1001, 32767},
     vin |-> {-32768, 0, 4499, 4500, 6000, 11998, 11999, 12000, 12001, 32767},
     temp |-> {0, 49, 50, 85, 100, 101, 255},
     mode |-> {Mode.Servo, Mode.Motor},
     speed |-> {-32768, -1001, -1000, -1, 0, 1, 500, 1000, 1001, 32767},
     enum |-> {0, 1},
     flag |-> BOOLEAN]

InitEnc ==
    /\ InitStatics
    /\ InitIdle
    /\ id = EncClients
    /\ inp \in WriteInputs(DOMAIN EncClients, EncArgs)
               \cup ReadInputs(DOMAIN EncClients)

NextEnc ==
    \/ ApplyWrite
    \/ ApplyRead
    \/ Exchange
    \/ NextPeer

SpecEnc == InitEnc /\ [][NextEnc]_vars

-----------------------------------------------------------------------------
(* SpecSeq: the clients of Spec make up to MaxCalls calls against a peer   *)
(* that answers a request with a well-formed reply, a reply with a wrong   *)
(* check byte or a reply that announces more bytes than a reply has, or    *)
(* not at all. The whole answer reaches the input queue at any later       *)
(* moment: in time, too late for the call (which times out and leaves it   *)
(* in the queue), or during a later call.                                  *)

SeqReplies ==
    {GoodReply(id[cur.c], <<244, 1, 232, 3>>),
     ReplyFrame(id[cur.c], Cmd[cur.op].reply, Cmd[cur.op].id,
                Fill(Cmd[cur.op].reply - 3, <<244, 1, 232, 3>>), 1),
     AnyLenReply(id[cur.c], 9, Cmd[cur.op].id, <<1, 2, 3>>)}

NextSeq ==
    \/ NextCall
    \/ Exchange
    \/ Undefined
    \/ pc = "AwaitHeader" /\ \E r \in SeqReplies : PeerReply(r)
    \/ Arrive(Len(line))

SpecSeq == Init /\ [][NextSeq]_vars

-----------------------------------------------------------------------------
(* SpecRx: one call of a read method against a peer that may send any of a *)
(* set of well-formed and malformed replies, whose bytes arrive a few at a *)
(* time or all at once, at any moment of the exchange.                     *)

RxClients == [a |-> 5]

\* Length bytes of the replies: below, at and above every reply size of the
\* protocol, and the ends of the byte range.
ReplyLens == {0, 1, 2, 3, 4, 5, 7, 8, 9, 255}

\* Replies the peer may send to the running request.
RxReplies ==
    LET size == Cmd[cur.op].reply
        cmd == Cmd[cur.op].id
    IN {ReplyFrame(id[cur.c], size, k, Fill(size - 3, pat), ck) :
            k \in {cmd, cmd + 1}, pat \in PayloadPatterns, ck \in {0, 1, 128}}
       \cup {ReplyFrame(9, size, cmd, Fill(size - 3, <<7>>), 0)}
       \cup {AnyLenReply(id[cur.c], len, cmd, <<1, 2, 3>>) : len \in ReplyLens}
       \cup {<<0, FrameHeader>> \o Tail(Tail(GoodReply(id[cur.c], <<255>>)))}

InitRx ==
    /\ InitStatics
    /\ InitIdle
    /\ id = RxClients
    /\ inp \in ReadInputs(DOMAIN RxClients)

NextRx ==
    \/ ApplyRead
    \/ Exchange
    \/ Undefined
    \/ pc = "AwaitHeader" /\ \E r \in RxReplies : PeerReply(r)
    \/ pc \notin {"Idle", "Crashed"}
          /\ \E k \in (1..4) \cup {Len(line)} : Arrive(k)

SpecRx == InitRx /\ [][NextRx]_vars

-----------------------------------------------------------------------------
(* Properties.                                                             *)

\* A request frame is on the line: tx holds what the call wrote.
Written == tx # <<>>

\* The bytes of tx laid out as a Buffer (index k holds the k-th byte
\* written, counted from 0).
TxBuf == [k \in 0..(BufferSize - 1) |-> IF k < Len(tx) THEN tx[k + 1] ELSE 0]

\* A 16-bit field read low byte first, as a signed value.
FieldS(lo, hi) ==
    IF lo + 256 * hi >= 32768 THEN lo + 256 * hi - 65536 ELSE lo + 256 * hi

\* C1: every frame written by any operation, for every bound id and every
\* argument, starts with 0x55 0x55, has a length byte equal to 3 plus the
\* number of payload bytes (those between the command byte and the last
\* byte), and ends with the low byte of the complement of the sum of the
\* bytes from the id byte through the last payload byte.
C1_FrameWellFormed ==
    Written =>
        /\ Len(tx) >= 6
        /\ tx[1] = 85 /\ tx[2] = 85
        /\ tx[4] = 3 + (Len(tx) - 6)
        /\ tx[Len(tx)] = 255 - (SeqSum(tx, 3, Len(tx) - 1) % 256)

C1_Witness ==
    /\ cur.op = "angleLimitWrite"
    /\ cur.a = <<1001, -1>>
    /\ id[cur.c] = BroadcastId
    /\ Len(tx) = 10

\* C2: the third byte of the frame of every write operation is the id the
\* calling client is bound to.
C2_WriteAddress ==
    (cur.op \in WriteOps /\ Written) => tx[3] = id[cur.c]

\* C3: the request of idRead carries the broadcast id 254 whatever the
\* client is bound to and whatever ran before; the request of every other
\* read operation carries the id the client is bound to.
C3_ReadAddress ==
    (cur.op \in ReadOps /\ Written) =>
        tx[3] = (IF cur.op = "idRead" THEN 254 ELSE id[cur.c])

C3_Witness ==
    /\ cur.op = "idRead"
    /\ id[cur.c] = 5
    /\ calls = 2
    /\ Written
    /\ tx[3] = 254

\* The read call got past both waits and is over, with the whole reply of
\* the servo arrived.
ReplyTaken ==
    /\ cur.op \in ReadOps
    /\ replied /\ line = <<>>
    /\ pc \in {"Idle", "Crashed"}
    /\ outcome \notin {"HeaderTimeout", "PayloadTimeout"}

\* The three conditions on the reply held in res: length byte, command id
\* and trailing checksum.
ReplyValid ==
    /\ res[3] = Cmd[cur.op].reply
    /\ res[4] = Cmd[cur.op].id
    /\ res[res[3] + 2] = 255 - (SumFrom(res, 2, res[3] + 2) % 256)

\* C4: a read operation whose reply has fully arrived returns a decoded
\* result only if the reply's length byte is the expected reply size, its
\* command byte is the command id of the request and its last byte is the
\* checksum recomputed over it; if one of the three fails the operation ends
\* with the corrupted-message error and no value.
C4_ValidOrCorrupted ==
    ReplyTaken =>
        IF ReplyValid
        THEN outcome = "Ok" /\ ret.has
        ELSE outcome = "Corrupted" /\ ~ret.has

\* The reply <<85, 85, 5, 9, ...>> announces more bytes than res can hold:
\* the copy loop stored past res[9] and the call did not end with the
\* corrupted-message error.
C4_Witness ==
    /\ ReplyTaken
    /\ res[3] = 9
    /\ hiStore = 11
    /\ outcome = "Crashed"

\* C5: if every poll of the header wait, the last one after the loop
\* included, saw fewer than 4 bytes available, the read operation ends with
\* the header-timeout error, returns no value and has read no byte.
C5_HeaderTimeout ==
    (cur.op \in ReadOps /\ polls.hdr = MaxBusyLoop + 1 /\ polls.low) =>
        /\ pc = "Idle"
        /\ outcome = "HeaderTimeout"
        /\ ~ret.has
        /\ nread = 0

C5_Witness ==
    /\ cur.op \in ReadOps
    /\ polls.hdr = MaxBusyLoop + 1 /\ polls.low
    /\ Len(rx) = 3
    /\ outcome = "HeaderTimeout"

\* C6: moveTimeWrite(p, t) by a client bound to a writes exactly
\* 55 55 a 07 01 lo(c) hi(c) lo(t) hi(t) CK with c the position clamped to
\* [0, 1000] and t as given; for a = 1, p = 500, t = 1000 these are
\* 55 55 01 07 01 F4 01 E8 03 16.
C6_MoveTimeWriteBytes ==
    (cur.op = "moveTimeWrite" /\ Written) =>
        LET p == cur.a[1]
            t == cur.a[2]
            c == IF p < 0 THEN 0 ELSE IF p > 1000 THEN 1000 ELSE p
            body == <<id[cur.c], 7, 1, c % 256, c \div 256,
                      t % 256, t \div 256>>
        IN /\ tx = <<85, 85>> \o body \o <<WireCheck(body)>>
           /\ (id[cur.c] = 1 /\ p = 500 /\ t = 1000) =>
                 tx = <<85, 85, 1, 7, 1, 244, 1, 232, 3, 22>>

C6_Witness ==
    /\ cur.op = "moveTimeWrite"
    /\ id[cur.c] = 1
    /\ cur.a = <<500, 1000>>
    /\ tx = <<85, 85, 1, 7, 1, 244, 1, 232, 3, 22>>

\* C7: for every pair of 16-bit inputs of angleLimitWrite the encoded min
\* and max satisfy 0 <= min <= 999 and min + 1 <= max <= 1000, and a pair
\* that already satisfies this is encoded unchanged.
C7_AngleLimitClamp ==
    (cur.op = "angleLimitWrite" /\ Written) =>
        LET mn == FieldS(tx[6], tx[7])
            mx == FieldS(tx[8], tx[9])
        IN /\ 0 <= mn /\ mn <= 999
           /\ mn + 1 <= mx /\ mx <= 1000
           /\ (/\ 0 <= cur.a[1] /\ cur.a[1] <= 999
               /\ cur.a[1] + 1 <= cur.a[2] /\ cur.a[2] <= 1000)
              => (mn = cur.a[1] /\ mx = cur.a[2])

C7_Witness ==
    /\ cur.op = "angleLimitWrite"
    /\ cur.a = <<1000, 0>>
    /\ FieldS(tx[6], tx[7]) = 999
    /\ FieldS(tx[8], tx[9]) = 1000

\* C8: servoOrMotorModeWrite(mode, speed) encodes the mode byte, a zero
\* byte and a 16-bit speed, low byte first, that is the argument clamped to
\* [-1000, 1000] in Motor mode and 0 in Servo mode.
C8_ModeWriteSpeed ==
    (cur.op = "servoOrMotorModeWrite" /\ Written) =>
        LET s == cur.a[2]
            c == IF s < -1000 THEN -1000 ELSE IF s > 1000 THEN 1000 ELSE s
        IN /\ tx[6] = cur.a[1]
           /\ tx[7] = 0
           /\ FieldS(tx[8], tx[9]) = (IF cur.a[1] = Mode.Motor THEN c ELSE 0)

\* Servo mode with speed 500, client bound to 1: the speed bytes are
\* F4 01, not 00 00.
C8_Witness ==
    /\ cur.op = "servoOrMotorModeWrite"
    /\ id[cur.c] = 1
    /\ cur.a = <<Mode.Servo, 500>>
    /\ tx = <<85, 85, 1, 7, 29, 0, 0, 244, 1, 229>>

\* C9: decoding the payload bytes a write operation encodes gives back the
\* encoded value: MoveTime for positions 0..1000 and any 16-bit time, Limit
\* for any clamped pair, ModeRead for both modes and speeds -1000..1000,
\* LedError for all 8 combinations; (true, false, true) is encoded as 0x05
\* and 0x05 is decoded as (true, false, true).
C9_RoundTrip ==
    /\ (cur.op \in {"moveTimeWrite", "moveTimeWaitWrite"} /\ Written
            /\ cur.a[1] \in 0..1000) =>
          Decode("moveTimeRead", TxBuf) =
              [position |-> cur.a[1], time |-> cur.a[2]]
    /\ (cur.op = "angleLimitWrite" /\ Written) =>
          LET d == Decode("angleLimitRead", TxBuf)
          IN /\ d.minLimit = FieldS(tx[6], tx[7])
             /\ d.maxLimit = FieldS(tx[8], tx[9])
             /\ (/\ 0 <= cur.a[1] /\ cur.a[1] < cur.a[2]
                 /\ cur.a[2] <= 1000)
                => d = [minLimit |-> cur.a[1], maxLimit |-> cur.a[2]]
    /\ (cur.op = "vinLimitWrite" /\ Written) =>
          LET d == Decode("vinLimitRead", TxBuf)
          IN /\ d.minLimit = FieldS(tx[6], tx[7])
             /\ d.maxLimit = FieldS(tx[8], tx[9])
             /\ (/\ 4500 <= cur.a[1] /\ cur.a[1] < cur.a[2]
                 /\ cur.a[2] <= 12000)
                => d = [minLimit |-> cur.a[1], maxLimit |-> cur.a[2]]
    /\ (cur.op = "servoOrMotorModeWrite" /\ Written
            /\ cur.a[2] \in -1000..1000) =>
          Decode("servoOrMotorModeRead", TxBuf) =
              [mode |-> cur.a[1], speed |-> cur.a[2]]
    /\ (cur.op = "ledErrorWrite" /\ Written) =>
          /\ Decode("ledErrorRead", TxBuf) =
                [overTemperature |-> cur.a[1], overVoltage |-> cur.a[2],
                 stall |-> cur.a[3]]
          /\ (cur.a = <<TRUE, FALSE, TRUE>>) <=> (tx[6] = 5)

C9_Witness ==
    /\ cur.op = "servoOrMotorModeWrite"
    /\ cur.a = <<Mode.Motor, -1000>>
    /\ tx[8] = 24 /\ tx[9] = 252
    /\ Decode("servoOrMotorModeRead", TxBuf).speed = -1000

\* C10 as stated: sending a frame whose length byte is L writes exactly
\* L + 2 bytes.
C10_LengthPlusTwo ==
    Written => Len(tx) = tx[4] + 2

\* C10: sending a frame whose length byte is L writes exactly L + 3 bytes,
\* in frame order: the whole frame from the first header byte through the
\* checksum byte.
C10_LengthPlusThree ==
    Written =>
        LET buf == tmpl[cur.op]
        IN /\ Len(tx) = buf[3] + 3
           /\ \A k \in 1..Len(tx) : tx[k] = buf[k - 1]
           /\ tx[1] = FrameHeader
           /\ tx[Len(tx)] = 255 - (SeqSum(tx, 3, Len(tx) - 1) % 256)

C10_Witness ==
    /\ cur.op = "idWrite"
    /\ Len(tx) = 7
    /\ tx[4] = 4
    /\ tx[7] = tmpl["idWrite"][6]

\* The steps of an exchange, as pairs of positions: a read call leaves Idle
\* for sending, the header wait and its last poll, the payload wait and its
\* last poll with the copy of the payload, the validation, and Idle again;
\* a timeout goes back to Idle from the last poll of its wait. A write call
\* and the arrival of bytes change no position. The process may die while
\* it stores a payload longer than the reply buffer; no step follows then.
ExchangeOrder ==
    {<<"Idle", "Send">>, <<"Send", "AwaitHeader">>,
     <<"AwaitHeader", "HeaderCheck">>,
     <<"HeaderCheck", "AwaitPayload">>, <<"HeaderCheck", "Idle">>,
     <<"AwaitPayload", "PayloadCheck">>,
     <<"PayloadCheck", "Check">>, <<"PayloadCheck", "Idle">>,
     <<"PayloadCheck", "Undefined">>, <<"Undefined", "Check">>,
     <<"Undefined", "Crashed">>,
     <<"Check", "Idle">>}

TerminalOutcomes == {"Ok", "HeaderTimeout", "PayloadTimeout", "Corrupted"}

C11_Step ==
    /\ pc' # pc => <<pc, pc'>> \in ExchangeOrder
    \* the exchange starts by flushing the input, before any byte is written
    /\ (pc = "Idle" /\ pc' = "Send") => (rx' = <<>> /\ tx' = <<>>)
    \* request bytes are written by an idle client's write call, or all at
    \* once right after the flush of a read call
    /\ (tx' # tx /\ tx' # <<>>) =>
          \/ /\ pc = "Send" /\ pc' = "AwaitHeader"
             /\ tx = <<>> /\ tx' = sendBuf(tmpl[cur.op])
          \/ /\ pc = "Idle" /\ pc' = "Idle"
             /\ outcome \in TerminalOutcomes \cup {"None", "Sent"}
             /\ cur'.op \in WriteOps
    \* bytes leave the input queue by the flush or, after the whole request
    \* is written, by the reads of the two waits
    /\ (nread' # nread /\ nread' # 0) =>
          /\ pc \in {"HeaderCheck", "PayloadCheck"}
          /\ tx = sendBuf(tmpl[cur.op])
    /\ (Len(rx') < Len(rx)) =>
          \/ pc = "Idle" /\ pc' = "Send"
          \/ nread' > nread /\ tx = sendBuf(tmpl[cur.op])
    \* a value is decoded only in the step that finds the reply valid
    /\ (ret'.has /\ ~ret.has) =>
          /\ pc = "Check" /\ ReplyValid
          /\ outcome' = "Ok"
          /\ ret'.v = Decode(cur.op, res)
    \* the exchange is back in Idle only with a terminal outcome
    /\ (pc # "Idle" /\ pc' = "Idle") => outcome' \in TerminalOutcomes

\* C11: every read operation runs its exchange in the order Idle, flush,
\* send the whole request, await header, await payload, then validated,
\* timed out or corrupted, and back to Idle: the flush comes before the
\* first request byte, no reply byte is read before the last request byte is
\* written, nothing is decoded before the validation succeeds, and no byte
\* of a later request is written before the running exchange has reached a
\* terminal outcome.
C11_ExchangeOrder == [][C11_Step]_vars

\* A second call, posRead, has gone through the whole exchange.
C11_Witness ==
    /\ calls = 2
    /\ cur.op = "posRead"
    /\ pc = "Idle"
    /\ outcome = "Ok" /\ ret.has
    /\ nread = 8
    /\ tx = sendBuf(tmpl["posRead"])

\* C12: whatever the transport does and whatever the received length byte
\* is, a receive that has started polling polls at most the iteration bound
\* of times in each wait (and once more in the test that follows the wait),
\* reads exactly lengthField-1 bytes after the 4 header bytes when it
\* succeeds, and ends in exactly one of success, header timeout and payload
\* timeout, the timeouts only with their wait exhausted.
C12_ReceiveEnds ==
    cur.op \in ReadOps =>
        /\ i <= MaxBusyLoop
        /\ polls.hdr <= MaxBusyLoop + 1 /\ polls.pay <= MaxBusyLoop + 1
        /\ pc \notin {"Undefined", "Crashed"}
        /\ pc = "Check" => nread = 4 + (res[3] - 1)
        /\ outcome = "HeaderTimeout" =>
              (polls.hdr = MaxBusyLoop + 1 /\ nread = 0)
        /\ outcome = "PayloadTimeout" =>
              (polls.pay = MaxBusyLoop + 1 /\ nread = 4)
        /\ (pc = "Idle" /\ calls > 0) => outcome \in TerminalOutcomes

\* The reply 55 55 05 00: the payload wait is over at the first poll and
\* the copy loop, bound for 2^32-1 iterations, stores past the end of res.
C12_Witness ==
    /\ cur.op \in ReadOps
    /\ pc = "Undefined"
    /\ res[3] = 0
    /\ polls.pay = 2
    /\ hiStore = UIntMax

\* A 16-bit value as two bytes, low byte first.
LowHigh(v) == <<(v % 65536) % 256, (v % 65536) \div 256>>

\* The payload bytes of the frame of op as a function of the arguments a of
\* the call alone.
PayloadOf(op, a) ==
    CASE op \in {"moveTimeWrite", "moveTimeWaitWrite"} ->
            LowHigh(ClampPosition(a[1])) \o LowHigh(a[2])
      [] op \in {"idWrite", "loadOrUnloadWrite", "ledCtrlWrite"} -> <<a[1]>>
      [] op = "angleOffsetAdjust" -> <<a[1] % 256>>
      [] op = "angleLimitWrite" ->
            LET lim == ClampLimits(0, 999, 1000, a[1], a[2])
            IN LowHigh(lim[1]) \o LowHigh(lim[2])
      [] op = "vinLimitWrite" ->
            LET lim == ClampLimits(4500, 11999, 12000, a[1], a[2])
            IN LowHigh(lim[1]) \o LowHigh(lim[2])
      [] op = "tempMaxLimitWrite" -> <<Min(Max(a[1], 50), 100)>>
      [] op = "servoOrMotorModeWrite" ->
            <<a[1], 0>> \o LowHigh(ClampSpeed(a[2]))
      [] op = "ledErrorWrite" -> <<LedErrorByte(a[1], a[2], a[3])>>
      [] OTHER -> <<>>

\* The frame of op as a function of the bound address addr of the caller and
\* the arguments a of the call alone (moveStart and moveStop leave the id
\* byte as initialised, idRead addresses every servo).
FrameOf(op, addr, a) ==
    LET to == IF op \in {"moveStart", "moveStop"} THEN pholder
              ELSE IF op = "idRead" THEN BroadcastId
              ELSE addr
        body == <<to, Cmd[op].size, Cmd[op].id>> \o PayloadOf(op, a)
    IN <<FrameHeader, FrameHeader>> \o body \o <<WireCheck(body)>>

C14_BufferBounds ==
    cur.op \in ReadOps =>
        /\ hiStore <= BufferSize - 1
        /\ stray = <<>>
        /\ pc = "Check" =>
              checkMessageReads(res, tmpl[cur.op][4], Cmd[cur.op].reply)
                  <= BufferSize - 1

\* The reply 55 55 05 08 ...: its seven bytes after the header go to
\* res[4..10].
C14_Witness ==
    /\ cur.op \in ReadOps
    /\ res[3] = 8
    /\ hiStore = 10
    /\ Len(stray) = 1
    /\ nread = 11

====
